---- MODULE Spec2Model ----
(***************************************************************************)
(* A model of the journal command-line tool (src/src/journal/journal.py).  *)
(*                                                                         *)
(* Text that the program computes (file names, titles, dates) is modelled  *)
(* as a sequence of one-character strings, so that formatting, parsing,    *)
(* lower-casing and the lexicographic order of file names are computed the *)
(* way the program computes them.  File bodies and command strings, which  *)
(* the program only copies, are modelled as atomic strings.                *)
(***************************************************************************)
EXTENDS Integers, Sequences, FiniteSets, TLC

----------------------------------------------------------------------------
(* Characters *)

Digits == <<"0", "1", "2", "3", "4", "5", "6", "7", "8", "9">>

UpperCase ==
    <<"A", "B", "C", "D", "E", "F", "G", "H", "I", "J", "K", "L", "M",
      "N", "O", "P", "Q", "R", "S", "T", "U", "V", "W", "X", "Y", "Z">>

LowerCase ==
    <<"a", "b", "c", "d", "e", "f", "g", "h", "i", "j", "k", "l", "m",
      "n", "o", "p", "q", "r", "s", "t", "u", "v", "w", "x", "y", "z">>

\* The characters in code-point order: the order Python's str comparison uses.
CodePoints == <<" ", "-", ".">> \o Digits \o UpperCase \o <<"_">> \o LowerCase

IndexOf(c, s) == CHOOSE i \in 1..Len(s) : s[i] = c

InSeq(c, s) == \E i \in 1..Len(s) : s[i] = c

Chars == { CodePoints[i] : i \in 1..Len(CodePoints) }

\* ord(c), up to an order-preserving renumbering
Ord == [c \in Chars |-> IndexOf(c, CodePoints)]

\* str.lower() on one character
LowerChar == [c \in Chars |-> IF InSeq(c, UpperCase) THEN LowerCase[IndexOf(c, UpperCase)] ELSE c]

\* str.lower()
Lower(s) == [i \in 1..Len(s) |-> LowerChar[s[i]]]

\* str.replace(old, new) for one-character old and new
Replace(s, old, by) == [i \in 1..Len(s) |-> IF s[i] = old THEN by ELSE s[i]]

\* s[:n]
Prefix(s, n) == SubSeq(s, 1, IF Len(s) < n THEN Len(s) ELSE n)

\* str.endswith(suffix)
EndsWith(s, suffix) ==
    /\ Len(s) >= Len(suffix)
    /\ SubSeq(s, Len(s) - Len(suffix) + 1, Len(s)) = suffix

\* str.startswith(prefix)
StartsWith(s, prefix) == Len(s) >= Len(prefix) /\ SubSeq(s, 1, Len(prefix)) = prefix

\* s < t in Python's ordering of str: by code point, a proper prefix first
RECURSIVE StrLess(_, _)
StrLess(s, t) ==
    IF t = <<>> THEN FALSE
    ELSE IF s = <<>> THEN TRUE
    ELSE IF s[1] # t[1] THEN Ord[s[1]] < Ord[t[1]]
    ELSE StrLess(Tail(s), Tail(t))

\* max(names) of a non-empty collection
MaxName(names) == CHOOSE n \in names : \A o \in names : o = n \/ StrLess(o, n)

\* sorted(names): ascending
RECURSIVE Sorted(_)
Sorted(names) ==
    IF names = {} THEN <<>>
    ELSE LET m == MaxName(names) IN Append(Sorted(names \ {m}), m)

----------------------------------------------------------------------------
(* Dates: arrow objects, of which the program uses the calendar day only *)

DaysInMonth(y, m) ==
    IF m = 2
    THEN (IF (y % 4 = 0 /\ y % 100 # 0) \/ y % 400 = 0 THEN 29 ELSE 28)
    ELSE IF m \in {4, 6, 9, 11} THEN 30 ELSE 31

MonthNames ==
    << <<"J","a","n","u","a","r","y">>, <<"F","e","b","r","u","a","r","y">>,
       <<"M","a","r","c","h">>, <<"A","p","r","i","l">>, <<"M","a","y">>,
       <<"J","u","n","e">>, <<"J","u","l","y">>, <<"A","u","g","u","s","t">>,
       <<"S","e","p","t","e","m","b","e","r">>, <<"O","c","t","o","b","e","r">>,
       <<"N","o","v","e","m","b","e","r">>, <<"D","e","c","e","m","b","e","r">> >>

\* decimal digits of n, no padding
RECURSIVE Decimal(_)
Decimal(n) ==
    IF n < 10 THEN <<Digits[n + 1]>>
    ELSE Append(Decimal(n \div 10), Digits[(n % 10) + 1])

\* decimal digits of n, zero-padded to width w
ZeroPad(n, w) ==
    LET digits == Decimal(n)
    IN  [i \in 1..(w - Len(digits)) |-> "0"] \o digits

\* arrow's "Do" token: the day of the month with its English ordinal suffix
Ordinal(n) ==
    Decimal(n) \o
        (IF n % 100 \in {11, 12, 13} THEN <<"t", "h">>
         ELSE IF n % 10 = 1 THEN <<"s", "t">>
         ELSE IF n % 10 = 2 THEN <<"n", "d">>
         ELSE IF n % 10 = 3 THEN <<"r", "d">>
         ELSE <<"t", "h">>)

\* arrow.Arrow.format(fmt), for the format strings the program uses
Format(date, fmt) ==
    CASE fmt = "YYYY-MM-DD" ->
            ZeroPad(date.y, 4) \o <<"-">> \o ZeroPad(date.m, 2) \o <<"-">> \o ZeroPad(date.d, 2)
      [] fmt = "MMMM-D" -> MonthNames[date.m] \o <<"-">> \o Decimal(date.d)
      [] fmt = "MMMM Do" -> MonthNames[date.m] \o <<" ">> \o Ordinal(date.d)
      [] fmt = "" -> <<>>

\* date.strftime('%d %b %Y')
Strftime(date) ==
    ZeroPad(date.d, 2) \o <<" ">> \o Prefix(MonthNames[date.m], 3) \o <<" ">> \o ZeroPad(date.y, 4)

DigitValue == [c \in { Digits[i] : i \in 1..Len(Digits) } |-> IndexOf(c, Digits) - 1]

RECURSIVE Number(_)
Number(s) == IF s = <<>> THEN 0 ELSE 10 * Number(SubSeq(s, 1, Len(s) - 1)) + DigitValue[s[Len(s)]]

\* whether arrow.get(s) parses s as a YYYY-MM-DD date
IsDateString(s) ==
    /\ Len(s) = 10
    /\ s[5] = "-" /\ s[8] = "-"
    /\ \A i \in {1, 2, 3, 4, 6, 7, 9, 10} : s[i] \in DOMAIN DigitValue
    /\ Number(SubSeq(s, 6, 7)) \in 1..12
    /\ Number(SubSeq(s, 9, 10)) \in 1..DaysInMonth(Number(SubSeq(s, 1, 4)), Number(SubSeq(s, 6, 7)))

\* arrow.get(s) of a YYYY-MM-DD string
ParseDate(s) ==
    [y |-> Number(SubSeq(s, 1, 4)), m |-> Number(SubSeq(s, 6, 7)), d |-> Number(SubSeq(s, 9, 10))]

----------------------------------------------------------------------------
(* Bounds of the model *)

\* how many source files one convert invocation is given
MaxBatch == 2

\* how many commits the local or the remote repository may be ahead
MaxAhead == 2

----------------------------------------------------------------------------
(* Values *)

\* None, where the program expects a str
NoName == <<"None">>

\* None, where the program expects an arrow date
NoDate == [y |-> 0, m |-> 0, d |-> 0]

\* the dates on which the tool is used
Days == { [y |-> 2024, m |-> 2, d |-> 29], [y |-> 2024, m |-> 3, d |-> 1] }

MD == <<".", "m", "d">>

DASH == <<"-">>

\* the text of an entry file: the front matter's fields and the body after it
Content(title, layout, category, body) ==
    [title |-> title, layout |-> layout, category |-> category, body |-> body]

\* a file of the posts directory that the tool did not write
StrayName == <<".", "D", "S", "_", "S", "t", "o", "r", "e">>

StrayContent == Content(<<>>, "", "", "binary")

\* texts the user may save through the editor
UserTexts == {"dear diary"}

\* --title values, besides None
Titles == { <<"T", "r", "i", "p", " ", "N", "o", "t", "e", "s">> }

\* --layout values; "post" is the default
Layouts == {"post"}

\* --category values: the default object, or a str built from the command line
CategoryArgs ==
    { [value |-> "journal", explicit |-> FALSE],
      [value |-> "journal", explicit |-> TRUE],
      [value |-> "essay", explicit |-> TRUE] }

\* files that convert may be given: directory, base name and text
SourceFiles ==
    { [dir |-> "vault", text |-> "notes text",
       base |-> <<"2", "0", "2", "3", "-", "1", "2", "-", "2", "5", "-", "n", "o", "t", "e", "s", ".", "m", "d">>],
      [dir |-> "inbox", text |-> "more text",
       base |-> <<"2", "0", "2", "3", "-", "1", "2", "-", "2", "5", "-", "m", "o", "r", "e", ".", "M", "D">>],
      [dir |-> "vault", text |-> "",
       base |-> <<"2", "0", "2", "4", "-", "0", "2", "-", "2", "9", ".", "m", "d">>],
      [dir |-> "vault", text |-> "readme",
       base |-> <<"R", "E", "A", "D", "M", "E", ".", "t", "x", "t">>] }

\* the settings that setup stores
Settings(posts, editor, serve) == [posts |-> posts, editor |-> editor, serve |-> serve]

\* the settings path, when nothing is there
NoSettings == [kind |-> "absent", data |-> Settings(<<>>, "", "")]

HOME == <<"/", "h">>

\* the path of the posts directory
PostsDir == <<"/", "h", "/", "p">>

Editors == {"vim"}

\* a line the tool prints: what kind of line, and the text it carries
Msg(tag, text) == [tag |-> tag, text |-> text]

\* what one invocation did that its caller can see: the exception that ended
\* it ("" for none), the messages printed, the editor launched and the file it
\* was launched on, and the exit status
Outcome(op, error, out, editor, opened, exit) ==
    [op |-> op, error |-> error, out |-> out, editor |-> editor, opened |-> opened, exit |-> exit]

\* an invocation ended by an exception that nothing catches
Raised(op, error, out) == Outcome(op, error, out, "", NoName, 1)

----------------------------------------------------------------------------
(* State *)

VARIABLES
    today,          \* the date arrow.now() returns
    settingsFile,   \* the settings file at get_settings_path()
    dataDir,        \* whether the directory of the settings file exists
    cwd,            \* the working directory: "data" (the directory of the settings file) or "other"
    cwdEntry,       \* what the name "settings.json" is in a working directory that is "other"
    files,          \* the posts directory: file name -> contents
    result,         \* the outcome of the last invocation
    repo,           \* the git repository above the posts directory
    procs,          \* the position and locals of each running `new`
    serial          \* whether `new` invocations run one at a time

vars == <<today, settingsFile, dataDir, cwd, cwdEntry, files, result, repo, procs, serial>>

----------------------------------------------------------------------------
(* Helper functions of the program *)

\* does_file_exist(filepath), of what is at a path; get_settings raises
\* FileNotFoundError when it is false of the settings path
does_file_exist(file) == file.kind = "file"

\* get_post_name(name, date, day_format, date_format, sep, ext)
get_post_name(name, date, day_format, date_format, sep, ext) ==
    LET when == IF date = NoDate THEN today ELSE date
        date_string == Format(when, date_format)
        discriminator == IF name = NoName THEN Lower(Format(when, day_format)) ELSE name
    IN  date_string \o sep \o discriminator \o ext

\* get_post_name() with every default
DefaultPostName(date) == get_post_name(NoName, date, "MMMM-D", "YYYY-MM-DD", DASH, MD)

\* write_file(file, title, layout, category, body): the directory afterwards
write_file(dir, file, title, layout, category, body) ==
    [f \in DOMAIN dir \cup {file} |->
        IF f = file THEN Content(title, layout, category, body) ELSE dir[f]]

\* os.listdir(settings["posts"])
ListDir(dir) == DOMAIN dir

\* `category is "journal"`: object identity with the literal.  The default value
\* is that literal; a str built from the command line with the same characters
\* is or is not the same object, as the interpreter has it.
CategoryIsJournal(category) ==
    IF category.value # "journal" THEN {FALSE}
    ELSE IF category.explicit THEN {TRUE, FALSE}
    ELSE {TRUE}

----------------------------------------------------------------------------
(* new *)

\* title.lower().replace(" ", "-")
Slug(title) == Replace(Lower(title), " ", "-")

\* the file name `new` computes for an explicit title
NamedPostName(title) == get_post_name(Slug(title), NoDate, "MMMM-D", "YYYY-MM-DD", DASH, MD)

\* the title `new` gives an entry when none is passed
DefaultTitle == get_post_name(NoName, NoDate, "", "MMMM Do", <<>>, <<>>)

\* NewBranch without the test that today's post is in the listing
NewBranchUnchecked(posts, todays_post, title, is_journal) == "write"

\* which way `new` goes after it has listed the directory and named today's post
NewBranch(posts, todays_post, title, is_journal) ==
    IF todays_post \in posts /\ is_journal THEN "open"
    ELSE IF title = NoName
         THEN (IF todays_post \in posts THEN "raise" ELSE "write")
         ELSE "write"

\* the file `new` writes or opens
NewPost(branch, todays_post, title) ==
    IF branch = "write" /\ title # NoName THEN NamedPostName(title) ELSE todays_post

\* one whole invocation of `new`: the directory and the outcome afterwards
NewRun(dir, file, title, category, is_journal, layout) ==
    IF ~does_file_exist(file) THEN [files |-> dir, result |-> Raised("new", "FileNotFoundError", <<>>)]
    ELSE LET posts == ListDir(dir) IN
    IF posts = {} THEN [files |-> dir, result |-> Raised("new", "ValueError", <<>>)]
    ELSE LET todays_post == DefaultPostName(NoDate)
             branch == NewBranch(posts, todays_post, title, is_journal)
             new_post == NewPost(branch, todays_post, title)
         IN  CASE branch = "open" ->
                    [files |-> dir,
                     result |-> Outcome("new", "", <<Msg("warning", "entry exists")>>,
                                        file.data.editor, new_post, 0)]
               [] branch = "raise" ->
                    [files |-> dir, result |-> Raised("new", "RuntimeError", <<>>)]
               [] branch = "write" ->
                    [files |-> write_file(dir, new_post,
                                          IF title = NoName THEN DefaultTitle ELSE title,
                                          layout, category, ""),
                     result |-> Outcome("new", "", <<>>, file.data.editor, new_post, 0)]

new(title, category, layout) ==
    /\ \E is_journal \in CategoryIsJournal(category) :
          LET run == NewRun(files, settingsFile, title, category.value, is_journal, layout)
          IN  files' = run.files /\ result' = run.result
    /\ UNCHANGED <<today, settingsFile, dataDir, cwd, cwdEntry, repo, procs, serial>>

----------------------------------------------------------------------------
(* previous *)

PreviousRun(dir, file) ==
    IF ~does_file_exist(file) THEN Raised("previous", "FileNotFoundError", <<>>)
    ELSE LET sorted == Sorted(ListDir(dir)) IN
         IF Len(sorted) < 2 THEN Raised("previous", "IndexError", <<>>)
         ELSE Outcome("previous", "", <<>>, file.data.editor, sorted[Len(sorted) - 1], 0)

previous ==
    /\ result' = PreviousRun(files, settingsFile)
    /\ UNCHANGED <<today, settingsFile, dataDir, cwd, cwdEntry, files, repo, procs, serial>>

----------------------------------------------------------------------------
(* convert *)

\* the lists of distinct files one invocation may be given
Batches ==
    { b \in UNION { [1..n -> SourceFiles] : n \in 1..MaxBatch } :
        \A i, j \in DOMAIN b : i # j => b[i] # b[j] }

\* the dates of the posts present, as convert collects them
PresentDates(posts) == { ParseDate(Prefix(post, 10)) : post \in { q \in posts : EndsWith(Lower(q), MD) } }

\* the loop over to_import: the directory and the warnings after it
RECURSIVE ConvertLoop(_, _, _, _)
ConvertLoop(batch, dir, present, out) ==
    IF batch = <<>> THEN [files |-> dir, out |-> out]
    ELSE LET source_file == Head(batch)
             date == ParseDate(Prefix(source_file.base, 10))
         IN  IF date \in present
             THEN ConvertLoop(Tail(batch), dir, present, Append(out, Msg("warning", "already present")))
             ELSE ConvertLoop(Tail(batch),
                              write_file(dir, DefaultPostName(date),
                                         <<"I", "m", "p", "o", "r", "t", "e", "d", " ", "p", "o", "s", "t", " ",
                                           "f", "r", "o", "m", " ">> \o Strftime(date),
                                         "post", "journal", source_file.text),
                              present, out)

ConvertRun(dir, file, batch) ==
    IF \E i \in DOMAIN batch : ~EndsWith(Lower(batch[i].base), MD)
    THEN [files |-> dir, result |-> Raised("convert", "AssertionError", <<>>)]
    ELSE IF \E i \in DOMAIN batch : ~IsDateString(Prefix(batch[i].base, 10))
    THEN [files |-> dir, result |-> Raised("convert", "ParserError", <<>>)]
    ELSE IF ~does_file_exist(file)
    THEN [files |-> dir, result |-> Raised("convert", "FileNotFoundError", <<>>)]
    ELSE IF \E post \in ListDir(dir) : EndsWith(Lower(post), MD) /\ ~IsDateString(Prefix(post, 10))
    THEN [files |-> dir, result |-> Raised("convert", "ParserError", <<>>)]
    ELSE LET done == ConvertLoop(batch, dir, PresentDates(ListDir(dir)), <<>>)
         IN  [files |-> done.files, result |-> Outcome("convert", "", done.out, "", NoName, 0)]

convert(batch) ==
    /\ LET run == ConvertRun(files, settingsFile, batch)
       IN  files' = run.files /\ result' = run.result
    /\ UNCHANGED <<today, settingsFile, dataDir, cwd, cwdEntry, repo, procs, serial>>

----------------------------------------------------------------------------
(* The user *)

\* the user saves text in the editor the last invocation launched
UserSave(text) ==
    /\ result.opened # NoName
    /\ result.opened \in DOMAIN files
    /\ files' = [files EXCEPT ![result.opened].body = text]
    /\ UNCHANGED <<today, settingsFile, dataDir, cwd, cwdEntry, result, repo, procs, serial>>

----------------------------------------------------------------------------
(* Initial values *)

EmptyDir == [f \in {} |-> StrayContent]

ValidSettings == { [kind |-> "file", data |-> Settings(PostsDir, e, "")] : e \in Editors }

NoOutcome == Outcome("", "", <<>>, "", NoName, 0)

CleanRepo == [valid |-> TRUE, staged |-> FALSE, message |-> "", ahead |-> 0, behind |-> 0]

\* how many terminals run `new`
NumProcs == 2

Procs == 1..NumProcs

\* where a file is absent
NoContent == Content(NoName, "", "", "")

\* a process that is not running `new`
Idle ==
    [pc |-> "idle", posts |-> {},
     todays_post |-> NoName, new_post |-> NoName, trace |-> <<>>, error |-> "",
     before |-> NoContent, launched |-> NoContent]

----------------------------------------------------------------------------
(* setup *)

\* str.replace(old, new) for a one-character old
RECURSIVE ReplaceAll(_, _, _)
ReplaceAll(s, old, by) ==
    IF s = <<>> THEN <<>>
    ELSE (IF Head(s) = old THEN by ELSE <<Head(s)>>) \o ReplaceAll(Tail(s), old, by)

\* the settings setup builds from its options
SetupSettings(editor, posts, serve) ==
    Settings(IF StartsWith(posts, <<"~">>) THEN ReplaceAll(posts, "~", HOME) ELSE posts,
             editor, serve)

\* what the relative path "settings.json" names: the settings path itself when
\* the working directory is the directory of the settings file
RelativeKind == IF cwd = "data" THEN settingsFile.kind ELSE cwdEntry

\* create_settings without the test that the settings file exists
create_settings_unchecked(data) ==
    LET unchanged == [settingsFile |-> settingsFile, cwdEntry |-> cwdEntry]
        made == IF cwd = "data"
                THEN [settingsFile |-> [settingsFile EXCEPT !.kind = "dir"], cwdEntry |-> cwdEntry]
                ELSE [settingsFile |-> settingsFile, cwdEntry |-> "dir"]
    IN  IF RelativeKind = "file" /\ cwd # "data"
        THEN [fs |-> unchanged, result |-> Raised("setup", "FileExistsError", <<>>)]
        ELSE IF ~dataDir
        THEN [fs |-> made, result |-> Raised("setup", "FileNotFoundError", <<>>)]
        ELSE IF made.settingsFile.kind = "dir"
        THEN [fs |-> made, result |-> Raised("setup", "IsADirectoryError", <<>>)]
        ELSE [fs |-> [made EXCEPT !.settingsFile = [kind |-> "file", data |-> data]],
              result |-> Outcome("setup", "", <<>>, "", NoName, 0)]

\* create_settings(data): the file system and the outcome afterwards
create_settings(data) ==
    LET unchanged == [settingsFile |-> settingsFile, cwdEntry |-> cwdEntry]
        \* Path(os.path.basename(file_path)).mkdir(exist_ok=True)
        made == IF cwd = "data"
                THEN [settingsFile |-> [settingsFile EXCEPT !.kind = "dir"], cwdEntry |-> cwdEntry]
                ELSE [settingsFile |-> settingsFile, cwdEntry |-> "dir"]
    IN  IF does_file_exist(settingsFile)
        THEN [fs |-> unchanged, result |-> Raised("setup", "ValueError", <<>>)]
        ELSE IF RelativeKind = "file"
        THEN [fs |-> unchanged, result |-> Raised("setup", "FileExistsError", <<>>)]
        ELSE IF ~dataDir
        THEN [fs |-> made, result |-> Raised("setup", "FileNotFoundError", <<>>)]
        ELSE IF made.settingsFile.kind = "dir"
        THEN [fs |-> made, result |-> Raised("setup", "IsADirectoryError", <<>>)]
        ELSE [fs |-> [made EXCEPT !.settingsFile = [kind |-> "file", data |-> data]],
              result |-> Outcome("setup", "", <<>>, "", NoName, 0)]

setup(editor, posts, serve) ==
    /\ LET run == create_settings(SetupSettings(editor, posts, serve))
       IN  /\ settingsFile' = run.fs.settingsFile
           /\ cwdEntry' = run.fs.cwdEntry
           /\ result' = run.result
    /\ UNCHANGED <<today, dataDir, cwd, files, repo, procs, serial>>

\* the user creates the directory of the settings file
UserMkdir ==
    /\ ~dataDir
    /\ dataDir' = TRUE
    /\ UNCHANGED <<today, settingsFile, cwd, cwdEntry, files, result, repo, procs, serial>>

\* the user removes what is at the settings path
UserRemove ==
    /\ settingsFile.kind # "absent"
    /\ settingsFile' = NoSettings
    /\ UNCHANGED <<today, dataDir, cwd, cwdEntry, files, result, repo, procs, serial>>

\* the user changes the working directory
UserChdir ==
    /\ cwd' \in {"data", "other"} \ {cwd}
    /\ cwd' = "data" => dataDir
    /\ UNCHANGED <<today, settingsFile, dataDir, cwdEntry, files, result, repo, procs, serial>>

\* setup's options
SetupEditors == {"vim", "code", "nano"}

SetupPosts == { <<"~", "/", "p">>, <<"/", "s">>, <<"/", "s", "~">>, <<"~", "/", "~">> }

SetupServes == {"", "jekyll serve"}

InitSettings ==
    /\ today \in {CHOOSE day \in Days : TRUE}
    /\ settingsFile = NoSettings
    /\ dataDir \in BOOLEAN
    /\ cwd = "other"
    /\ cwdEntry \in {"absent", "dir", "file"}
    /\ files = EmptyDir
    /\ result = NoOutcome
    /\ repo = CleanRepo
    /\ procs = [p \in Procs |-> Idle]
    /\ serial = TRUE

NextSettings ==
    \/ \E editor \in SetupEditors, posts \in SetupPosts, serve \in SetupServes :
          setup(editor, posts, serve)
    \/ UserMkdir
    \/ UserRemove
    \/ UserChdir

SpecSettings == InitSettings /\ [][NextSettings]_vars

----------------------------------------------------------------------------
(* push and pull *)

\* the steps of push at which the git client may fail, and "none"
PushFailures == {"none", "add", "commit", "push"}

PullFailures == {"none", "pull"}

\* the text of a GitCommandError
ErrorTexts == {"exit code(128)"}

\* -m values; "" is none given
Messages == {"", "notes"}

\* push(message): the repository and the outcome afterwards
PushRun(file, r, message, failure, text) ==
    IF ~does_file_exist(file) THEN [repo |-> r, result |-> Raised("push", "FileNotFoundError", <<>>)]
    ELSE IF ~r.valid THEN [repo |-> r, result |-> Raised("push", "InvalidGitRepositoryError", <<>>)]
    ELSE LET commit_message == IF message = "" THEN "Autocommit" ELSE message
             adding == <<Msg("echo", "Adding new files to index")>>
             committing == Append(adding, Msg("echo", "Committing changes"))
             pushing == Append(committing, Msg("echo", "Pushing to remote repository"))
             added == [r EXCEPT !.staged = TRUE]
             committed == [added EXCEPT !.staged = FALSE, !.message = commit_message, !.ahead = @ + 1]
             pushed == [committed EXCEPT !.ahead = 0]
             failed(at, out) ==
                 [repo |-> at,
                  result |-> Outcome("push", "", Append(out, Msg("FAILED", text)), "", NoName, 1)]
         IN  CASE failure = "add" -> failed(r, adding)
               [] failure = "commit" -> failed(added, committing)
               [] failure = "push" -> failed(committed, pushing)
               [] failure = "none" ->
                    [repo |-> pushed,
                     result |-> Outcome("push", "", Append(pushing, Msg("SUCCESS", "")), "", NoName, 0)]

push(message, failure, text) ==
    /\ repo.ahead < MaxAhead
    /\ LET run == PushRun(settingsFile, repo, message, failure, text)
       IN  repo' = run.repo /\ result' = run.result
    /\ UNCHANGED <<today, settingsFile, dataDir, cwd, cwdEntry, files, procs, serial>>

\* pull(): the repository and the outcome afterwards
PullRun(file, r, failure, text) ==
    IF ~does_file_exist(file) THEN [repo |-> r, result |-> Raised("pull", "FileNotFoundError", <<>>)]
    ELSE IF ~r.valid THEN [repo |-> r, result |-> Raised("pull", "InvalidGitRepositoryError", <<>>)]
    ELSE LET pulling == <<Msg("echo", "Pulling changes from remote repository")>>
         IN  IF failure = "pull"
             THEN [repo |-> r,
                   result |-> Outcome("pull", "", Append(pulling, Msg("FAILED", text)), "", NoName, 0)]
             ELSE [repo |-> [r EXCEPT !.behind = 0],
                   result |-> Outcome("pull", "", Append(pulling, Msg("SUCCESS", "")), "", NoName, 0)]

pull(failure, text) ==
    /\ LET run == PullRun(settingsFile, repo, failure, text)
       IN  repo' = run.repo /\ result' = run.result
    /\ UNCHANGED <<today, settingsFile, dataDir, cwd, cwdEntry, files, procs, serial>>

\* another clone pushes a commit to the remote repository
RemoteCommit ==
    /\ repo.valid
    /\ repo.behind < MaxAhead
    /\ repo' = [repo EXCEPT !.behind = @ + 1]
    /\ UNCHANGED <<today, settingsFile, dataDir, cwd, cwdEntry, files, result, procs, serial>>

InitSync ==
    /\ today \in {CHOOSE day \in Days : TRUE}
    /\ settingsFile \in {NoSettings} \cup ValidSettings
    /\ dataDir = TRUE
    /\ cwd = "other"
    /\ cwdEntry = "absent"
    /\ files = EmptyDir
    /\ result = NoOutcome
    /\ repo \in {CleanRepo, [CleanRepo EXCEPT !.valid = FALSE]}
    /\ procs = [p \in Procs |-> Idle]
    /\ serial = TRUE

NextSync ==
    \/ \E message \in Messages, failure \in PushFailures, text \in ErrorTexts :
          push(message, failure, text)
    \/ \E failure \in PullFailures, text \in ErrorTexts : pull(failure, text)
    \/ RemoteCommit

SpecSync == InitSync /\ [][NextSync]_vars

----------------------------------------------------------------------------
(* new, statement by statement, in processes that may run at the same time.  *)
(* The processes run `new` without --title and with the default category.    *)
(* Of each invocation the model keeps the calls it has made (trace), the     *)
(* contents of today's post when it started (before) and the contents of the *)
(* file the editor was launched on, at the launch (launched).                *)

\* --category, when the option is not given
DefaultCategory == [value |-> "journal", explicit |-> FALSE]

ReadFile(dir, name) == IF name \in DOMAIN dir THEN dir[name] ELSE NoContent

Advance(proc, pc, call) == [proc EXCEPT !.pc = pc, !.trace = Append(@, call)]

Abort(proc, error) == [proc EXCEPT !.pc = "done", !.error = error]

\* the shell starts `new`
Start(p) ==
    /\ procs[p].pc = "idle"
    /\ serial => \A q \in Procs : procs[q].pc = "idle"
    /\ procs' = [procs EXCEPT ![p] =
                    [Idle EXCEPT !.pc = "settings",
                                 !.before = ReadFile(files, DefaultPostName(NoDate))]]
    /\ UNCHANGED <<today, settingsFile, dataDir, cwd, cwdEntry, files, result, repo, serial>>

\* settings = get_settings()
CheckSettings(p) ==
    /\ procs[p].pc = "settings"
    /\ procs' = [procs EXCEPT ![p] =
                    IF does_file_exist(settingsFile) THEN Advance(@, "list", "get_settings")
                    ELSE Abort(@, "FileNotFoundError")]
    /\ UNCHANGED <<today, settingsFile, dataDir, cwd, cwdEntry, files, result, repo, serial>>

\* posts = os.listdir(settings["posts"]); latest = max(posts)
ListEntries(p) ==
    /\ procs[p].pc = "list"
    /\ procs' = [procs EXCEPT ![p] =
                    IF ListDir(files) = {}
                    THEN Abort(Advance(@, "done", "listdir"), "ValueError")
                    ELSE [Advance(@, "name", "listdir") EXCEPT !.posts = ListDir(files)]]
    /\ UNCHANGED <<today, settingsFile, dataDir, cwd, cwdEntry, files, result, repo, serial>>

\* todays_post = get_post_name(); new_post = os.path.join(settings["posts"], todays_post)
ComputeName(p) ==
    /\ procs[p].pc = "name"
    /\ procs' = [procs EXCEPT ![p] =
                    [Advance(@, "branch", "get_post_name") EXCEPT
                        !.todays_post = DefaultPostName(NoDate),
                        !.new_post = DefaultPostName(NoDate)]]
    /\ UNCHANGED <<today, settingsFile, dataDir, cwd, cwdEntry, files, result, repo, serial>>

\* the if statements of `new`, up to the call of write_file
Branch(p) ==
    /\ procs[p].pc = "branch"
    /\ \E is_journal \in CategoryIsJournal(DefaultCategory) :
          LET branch == NewBranch(procs[p].posts, procs[p].todays_post, NoName, is_journal)
          IN  procs' = [procs EXCEPT ![p] =
                           CASE branch = "open" -> Advance(@, "call", "warn")
                             [] branch = "raise" ->
                                  Abort(@, IF procs[p].new_post \in DOMAIN files
                                           THEN "RuntimeError" ELSE "AssertionError")
                             [] branch = "write" -> [@ EXCEPT !.pc = "write"]]
    /\ UNCHANGED <<today, settingsFile, dataDir, cwd, cwdEntry, files, result, repo, serial>>

\* write_file(new_post, title, layout, category)
Write(p) ==
    /\ procs[p].pc = "write"
    /\ files' = write_file(files, procs[p].new_post, DefaultTitle, "post", DefaultCategory.value, "")
    /\ procs' = [procs EXCEPT ![p] = Advance(@, "call", "write_file")]
    /\ UNCHANGED <<today, settingsFile, dataDir, cwd, cwdEntry, result, repo, serial>>

\* call([editor_exe, new_post]): the editor starts
Call(p) ==
    /\ procs[p].pc = "call"
    /\ procs' = [procs EXCEPT ![p] =
                    [Advance(@, "editing", "call") EXCEPT !.launched = ReadFile(files, procs[p].new_post)]]
    /\ UNCHANGED <<today, settingsFile, dataDir, cwd, cwdEntry, files, result, repo, serial>>

\* the user saves text in the editor of p
Save(p, text) ==
    /\ procs[p].pc = "editing"
    /\ procs[p].new_post \in DOMAIN files
    /\ files' = [files EXCEPT ![procs[p].new_post].body = text]
    /\ UNCHANGED <<today, settingsFile, dataDir, cwd, cwdEntry, result, repo, procs, serial>>

\* the editor exits and call returns
Close(p) ==
    /\ procs[p].pc = "editing"
    /\ procs' = [procs EXCEPT ![p].pc = "done"]
    /\ UNCHANGED <<today, settingsFile, dataDir, cwd, cwdEntry, files, result, repo, serial>>

\* the process exits
Exit(p) ==
    /\ procs[p].pc = "done"
    /\ procs' = [procs EXCEPT ![p] = Idle]
    /\ UNCHANGED <<today, settingsFile, dataDir, cwd, cwdEntry, files, result, repo, serial>>

InitNew ==
    /\ today \in {CHOOSE day \in Days : TRUE}
    /\ settingsFile \in {NoSettings} \cup ValidSettings
    /\ dataDir = TRUE
    /\ cwd = "other"
    /\ cwdEntry = "absent"
    /\ files \in {EmptyDir, [f \in {StrayName} |-> StrayContent],
                 [f \in {DefaultPostName(day) : day \in Days \ {today}} |->
                     Content(<<"o", "l", "d">>, "post", "journal", "long ago")]}
    /\ result = NoOutcome
    /\ repo = CleanRepo
    /\ procs = [p \in Procs |-> Idle]

NextNew ==
    \E p \in Procs :
        \/ Start(p)
        \/ CheckSettings(p)
        \/ ListEntries(p)
        \/ ComputeName(p)
        \/ Branch(p)
        \/ Write(p)
        \/ Call(p)
        \/ \E text \in UserTexts : Save(p, text)
        \/ Close(p)
        \/ Exit(p)

\* one invocation at a time
InitSeq == InitNew /\ serial = TRUE

SpecSeq == InitSeq /\ [][NextNew]_vars

\* invocations from several terminals
InitRace == InitNew /\ serial = FALSE

SpecRace == InitRace /\ [][NextNew]_vars

----------------------------------------------------------------------------
(* The tool used from one terminal: whole invocations, one after another *)

Init ==
    /\ today \in Days
    /\ settingsFile \in {NoSettings} \cup ValidSettings
    /\ dataDir = TRUE
    /\ cwd = "other"
    /\ cwdEntry = "absent"
    /\ files \in {EmptyDir, [f \in {StrayName} |-> StrayContent]}
    /\ result = NoOutcome
    /\ repo = CleanRepo
    /\ procs = [p \in Procs |-> Idle]
    /\ serial = TRUE

Next ==
    \/ \E title \in Titles \cup {NoName}, category \in CategoryArgs, layout \in Layouts :
          new(title, category, layout)
    \/ previous
    \/ \E batch \in Batches : convert(batch)
    \/ \E text \in UserTexts : UserSave(text)

Spec == Init /\ [][Next]_vars

----------------------------------------------------------------------------
(* Properties *)

\* a step that is one invocation of new, previous or convert
ToolStep ==
    \/ \E title \in Titles \cup {NoName}, category \in CategoryArgs, layout \in Layouts :
          new(title, category, layout)
    \/ previous
    \/ \E batch \in Batches : convert(batch)

\* C1: an invocation of new, previous or convert leaves every file that was in
\* the posts directory before it in the directory, with the same contents.
C1_PresentEntriesKept ==
    [][ToolStep => \A f \in DOMAIN files : f \in DOMAIN files' /\ files'[f] = files[f]]_vars

DayNames ==
    << <<"S","u","n","d","a","y">>, <<"M","o","n","d","a","y">>, <<"T","u","e","s","d","a","y">>,
       <<"W","e","d","n","e","s","d","a","y">>, <<"T","h","u","r","s","d","a","y">>,
       <<"F","r","i","d","a","y">>, <<"S","a","t","u","r","d","a","y">> >>

\* the name of the day of the week of a date
DayName(date) ==
    LET t == <<0, 3, 2, 5, 0, 3, 5, 1, 4, 6, 2, 4>>
        y == IF date.m < 3 THEN date.y - 1 ELSE date.y
    IN  DayNames[((y + (y \div 4) - (y \div 100) + (y \div 400) + t[date.m] + date.d) % 7) + 1]

\* <date as YYYY-MM-DD>-<day-name slug>.md
DayNamedPost(date) == Format(date, "YYYY-MM-DD") \o DASH \o Lower(DayName(date)) \o MD

\* C2: with settings and an empty posts directory, new with no title and the
\* default category and layout creates exactly one file, named after the date
\* and the day's name, with category journal and layout post, and launches
\* the editor on it.
C2_FirstEntryCreated ==
    [][(new(NoName, DefaultCategory, "post") /\ does_file_exist(settingsFile) /\ files = EmptyDir)
        => /\ DOMAIN files' = {DayNamedPost(today)}
           /\ files'[DayNamedPost(today)].category = "journal"
           /\ files'[DayNamedPost(today)].layout = "post"
           /\ result'.error = ""
           /\ result'.opened = DayNamedPost(today)]_vars

\* C3: new --title T, when the file named after today and the slug of T is in
\* the posts directory, fails and writes nothing.
C3_NamedEntryNotRewritten ==
    [][\A title \in Titles, category \in CategoryArgs, layout \in Layouts :
          (/\ new(title, category, layout)
           /\ does_file_exist(settingsFile)
           /\ Format(today, "YYYY-MM-DD") \o DASH \o Slug(title) \o MD \in DOMAIN files)
          => result'.error # "" /\ files' = files]_vars

\* C4: when today's default entry exists, new --title T, T's slug not being the
\* default discriminator, ends for every category with the default entry and
\* the entry named after T both present, and the default entry unchanged.
C4_NamedEntryBesideDefault ==
    [][\A title \in Titles, category \in CategoryArgs, layout \in Layouts :
          (/\ new(title, category, layout)
           /\ does_file_exist(settingsFile)
           /\ DefaultPostName(today) \in DOMAIN files
           /\ Slug(title) # Lower(Format(today, "MMMM-D")))
          => /\ {DefaultPostName(today), NamedPostName(title)} \subseteq DOMAIN files'
             /\ files'[DefaultPostName(today)] = files[DefaultPostName(today)]]_vars

\* the date in the first ten characters of a name
NameDate(name) == ParseDate(Prefix(name, 10))

\* the .md entries of a directory
Entries(dir) == { f \in DOMAIN dir : EndsWith(f, MD) }

\* the entry an import of source makes
Imported(source) ==
    Content(<<"I", "m", "p", "o", "r", "t", "e", "d", " ", "p", "o", "s", "t", " ", "f", "r", "o", "m", " ">>
                \o Strftime(NameDate(source.base)),
            "post", "journal", source.text)

\* C5: of every source file of one convert invocation, with D the date in its
\* name: if an entry of the directory has date D the source is skipped with a
\* warning and nothing is written for it; otherwise the default-named entry
\* for D exists afterwards, with the import's title, layout post, category
\* journal and the text of that source as its body.
C5_EverySourceImported ==
    [][\A batch \in Batches :
          (/\ convert(batch)
           /\ does_file_exist(settingsFile)
           /\ \A i \in DOMAIN batch :
                 EndsWith(Lower(batch[i].base), MD) /\ IsDateString(Prefix(batch[i].base, 10)))
          => \A i \in DOMAIN batch :
                LET D == NameDate(batch[i].base)
                    target == DefaultPostName(D)
                IN  IF \E f \in Entries(files) : NameDate(f) = D
                    THEN /\ Msg("warning", "already present") \in { result'.out[k] : k \in DOMAIN result'.out }
                         /\ ReadFile(files', target) = ReadFile(files, target)
                    ELSE ReadFile(files', target) = Imported(batch[i])]_vars

\* C6: previous opens the second-greatest entry name of the posts directory,
\* and with fewer than two entries fails and launches no editor.
C6_PreviousOpensPenultimateEntry ==
    [][(previous /\ does_file_exist(settingsFile))
        => IF Cardinality(Entries(files)) < 2
           THEN result'.error # "" /\ result'.opened = NoName
           ELSE LET sorted == Sorted(Entries(files))
                IN  result'.error = "" /\ result'.opened = sorted[Len(sorted) - 1]]_vars

\* C7: setup, when the settings file exists, fails with ValueError and leaves
\* the settings file as it was.
C7_SettingsNotOverwritten ==
    [][\A editor \in SetupEditors, posts \in SetupPosts, serve \in SetupServes :
          (setup(editor, posts, serve) /\ does_file_exist(settingsFile))
          => settingsFile' = settingsFile /\ result'.error = "ValueError"]_vars

\* C7 happens: a setup was refused because the settings file exists
C7_Witness ==
    /\ does_file_exist(settingsFile)
    /\ result.op = "setup"
    /\ result.error = "ValueError"

\* whether an outcome shows a line of the kind tag
Printed(outcome, tag) == \E k \in DOMAIN outcome.out : outcome.out[k].tag = tag

\* C8: when the git client fails during push or pull, a FAILED line with the
\* client's error text is printed, no SUCCESS line is printed, and the exit
\* status is not zero.
C8_SyncFailureReported ==
    [][\A text \in ErrorTexts :
          (/\ does_file_exist(settingsFile) /\ repo.valid
           /\ \/ \E message \in Messages, failure \in PushFailures \ {"none"} :
                    push(message, failure, text)
              \/ pull("pull", text))
          => /\ Msg("FAILED", text) \in { result'.out[k] : k \in DOMAIN result'.out }
             /\ ~Printed(result', "SUCCESS")
             /\ result'.exit # 0]_vars

\* C9: an invocation of new without title and with the default category, the
\* settings being there, makes the calls get_settings, listdir, get_post_name
\* and then, if today's post was listed, warns and launches the editor, and
\* otherwise writes the file and launches the editor; the file exists when
\* the editor is launched, and a post that was listed has at the launch the
\* contents it had when the invocation started.
C9_DefaultFlow ==
    \A p \in Procs :
        (/\ procs[p].pc = "done"
         /\ procs[p].error # "FileNotFoundError")
        => /\ procs[p].error = ""
           /\ procs[p].trace =
                <<"get_settings", "listdir", "get_post_name",
                  IF procs[p].todays_post \in procs[p].posts THEN "warn" ELSE "write_file",
                  "call">>
           /\ procs[p].launched # NoContent
           /\ procs[p].todays_post \in procs[p].posts => procs[p].launched = procs[p].before

\* C10 as claimed: text the user saved in an entry is not replaced by the
\* template that an invocation of the default flow writes.
C10_SavedTextKept ==
    [][\A f \in DOMAIN files :
          files[f].body \in UserTexts => f \in DOMAIN files' /\ files'[f].body \in UserTexts]_vars

\* C10 amended: an invocation of the default flow writes a file that is in the
\* directory only if it listed the directory when the file was not in it; no
\* other step replaces the contents of a file by a template.
C10_OnlyUnlistedWritten ==
    [][\A f \in DOMAIN files :
          files'[f] # files[f] /\ files'[f].body \notin UserTexts
          => \E p \in Procs :
                /\ procs[p].pc = "write" /\ procs'[p].pc = "call"
                /\ procs[p].new_post = f
                /\ f \notin procs[p].posts]_vars

\* C10 happens: an invocation of the default flow has written today's post
\* while the editor of the other, which wrote it first, is open on it
C10_Witness ==
    \E p, q \in Procs :
        /\ p # q
        /\ procs[p].pc = "editing" /\ procs[q].pc = "call"
        /\ procs[p].new_post = procs[q].new_post
        /\ procs[p].trace[Len(procs[p].trace) - 1] = "write_file"
        /\ procs[q].trace[Len(procs[q].trace)] = "write_file"

====
